---------------------------- MODULE Spec2Model ----------------------------
(***************************************************************************)
(* Model of the CopterControl attitude estimator,                          *)
(* flight/Modules/Attitude/attitude.c: the estimator task (AttitudeTask),  *)
(* sample acquisition and conditioning (updateSensors), fusion and         *)
(* propagation (updateAttitude) and the settings callback                  *)
(* (settingsUpdatedCb) that the event dispatcher runs on its own thread.   *)
(*                                                                         *)
(* Arithmetic.  The C code computes in IEEE-754 single precision.  A float *)
(* is modelled as a decimal floating-point number <<m, e>> of value        *)
(* m * 10^e with a six-digit mantissa (10^5 <= |m| < 10^6), zero <<0, 0>>, *)
(* the infinities <<1, SpecialExp>> and <<-1, SpecialExp>> and NaN         *)
(* <<0, SpecialExp>>.  The range is that of a float (largest finite value  *)
(* 3.40282e38, results below 1e-45 flush to zero); the precision is six    *)
(* decimal digits instead of 24 bits.  Overflow gives an infinity,         *)
(* 0/0, Inf-Inf, 0*Inf, sqrt of a negative and acos outside [-1,1] give    *)
(* NaN, and every comparison with NaN is false, as in the C code.  Signed  *)
(* zeros are not distinguished.  Where the C code computes in double (an   *)
(* operand is a double constant such as M_PI) the operations with the      *)
(* range of a double are used, and the result is converted at the          *)
(* assignment to a float.                                                  *)
(***************************************************************************)
EXTENDS Integers, Sequences, FiniteSets, TLC

----------------------------------------------------------------------------
(* Decimal floating point *)

MantLo == 10 ^ 5
MantHi == 10 ^ 6
SpecialExp == 10 ^ 3
\* FLT_MAX = 3.40282e38 and DBL_MAX = 1.79769e308 as <<mantissa, exponent>>;
\* the exponents below which a float and a double result flush to zero.
MaxFin == <<340282, 33>>
MinFinExp == 0 - 50
MaxWide == <<179769, 303>>
MinWideExp == 0 - 330

NaN == <<0, SpecialExp>>
PInf == <<1, SpecialExp>>
NInf == <<-1, SpecialExp>>
Zero == <<0, 0>>

IAbs(n) == IF n < 0 THEN 0 - n ELSE n
Sgn(n) == IF n < 0 THEN -1 ELSE IF n > 0 THEN 1 ELSE 0

IsNaN(a) == a = NaN
IsInf(a) == a[2] = SpecialExp /\ a[1] # 0
IsFinite(a) == a[2] # SpecialExp

RECURSIVE NormMag(_, _)
NormMag(m, e) ==
    IF m >= MantHi THEN NormMag((m + 5) \div 10, e + 1)
    ELSE IF m < MantLo THEN NormMag(m * 10, e - 1)
    ELSE <<m, e>>

\* The number nearest to m * 10^e (|m| < 2^31) in the range of a double
\* (wide) or of a float: rounds to six digits, overflows to an infinity,
\* underflows to zero.
RoundTo(m, e, wide) ==
    IF m = 0 THEN Zero
    ELSE LET r == NormMag(IAbs(m), e)
             max == IF wide THEN MaxWide ELSE MaxFin
             min == IF wide THEN MinWideExp ELSE MinFinExp
         IN  IF r[2] > max[2] \/ (r[2] = max[2] /\ r[1] > max[1])
             THEN <<Sgn(m), SpecialExp>>
             ELSE IF r[2] < min THEN Zero
             ELSE <<Sgn(m) * r[1], r[2]>>

Round(m, e) == RoundTo(m, e, FALSE)

\* The conversion of a double to float.
ToFloat(a) == IF a[2] = SpecialExp THEN a ELSE Round(a[1], a[2])

IntToF(n) == Round(n, 0)

FNeg(a) == IF a = NaN THEN NaN ELSE <<0 - a[1], a[2]>>
FAbs(a) == IF a = NaN THEN NaN ELSE <<IAbs(a[1]), a[2]>>

MulTo(a, b, wide) ==
    IF a = NaN \/ b = NaN THEN NaN
    ELSE IF IsInf(a) \/ IsInf(b)
         THEN IF a[1] = 0 \/ b[1] = 0 THEN NaN
              ELSE <<Sgn(a[1]) * Sgn(b[1]), SpecialExp>>
    ELSE IF a[1] = 0 \/ b[1] = 0 THEN Zero
    ELSE LET ma == IAbs(a[1])
             mb == IAbs(b[1])
             ah == ma \div 1000
             al == ma % 1000
             bh == mb \div 1000
             bl == mb % 1000
             p  == ah * bh * 10
                   + (((ah * bl + al * bh) * 1000 + al * bl) \div 100000)
         IN  RoundTo(Sgn(a[1]) * Sgn(b[1]) * p, a[2] + b[2] + 5, wide)

FMul(a, b) == MulTo(a, b, FALSE)
DMul(a, b) == MulTo(a, b, TRUE)

DivTo(a, b, wide) ==
    IF a = NaN \/ b = NaN THEN NaN
    ELSE IF IsInf(a)
         THEN IF IsInf(b) THEN NaN
              ELSE <<a[1] * (IF b[1] < 0 THEN -1 ELSE 1), SpecialExp>>
    ELSE IF IsInf(b) THEN Zero
    ELSE IF b[1] = 0
         THEN IF a[1] = 0 THEN NaN ELSE <<Sgn(a[1]), SpecialExp>>
    ELSE IF a[1] = 0 THEN Zero
    ELSE LET ma == IAbs(a[1])
             mb == IAbs(b[1])
             q1 == ma \div mb
             r1 == ma % mb
             d1 == (r1 * 1000) \div mb
             r2 == (r1 * 1000) % mb
             d2 == (r2 * 1000) \div mb
         IN  RoundTo(Sgn(a[1]) * Sgn(b[1]) * (q1 * MantHi + d1 * 1000 + d2),
                     a[2] - b[2] - 6, wide)

FDiv(a, b) == DivTo(a, b, FALSE)
DDiv(a, b) == DivTo(a, b, TRUE)

FAdd(a, b) ==
    IF a = NaN \/ b = NaN THEN NaN
    ELSE IF IsInf(a)
         THEN IF IsInf(b) /\ a[1] # b[1] THEN NaN ELSE a
    ELSE IF IsInf(b) THEN b
    ELSE IF a[1] = 0 THEN b
    ELSE IF b[1] = 0 THEN a
    ELSE LET hi == IF a[2] >= b[2] THEN a ELSE b
             lo == IF a[2] >= b[2] THEN b ELSE a
             d  == hi[2] - lo[2]
         IN  IF d >= 8 THEN hi
             ELSE LET sh == (IAbs(lo[1]) * 10 + ((10 ^ d) \div 2)) \div (10 ^ d)
                  IN  Round(hi[1] * 10 + Sgn(lo[1]) * sh, hi[2] - 1)

FSub(a, b) == FAdd(a, FNeg(b))

\* a < b; false when either is NaN.
FLt(a, b) ==
    /\ a # NaN
    /\ b # NaN
    /\ LET sa == Sgn(a[1])
           sb == Sgn(b[1])
       IN  IF sa # sb THEN sa < sb
           ELSE IF sa = 0 THEN FALSE
           ELSE IF sa > 0
                THEN a[2] < b[2] \/ (a[2] = b[2] /\ a[1] < b[1])
                ELSE b[2] < a[2] \/ (a[2] = b[2] /\ a[1] < b[1])

FGt(a, b) == FLt(b, a)
FEq(a, b) == a # NaN /\ b # NaN /\ a = b
FLe(a, b) == FLt(a, b) \/ FEq(a, b)
FGe(a, b) == FLe(b, a)

\* y * y <= n * 10^6, computed in 32-bit-safe pieces (y < 3200000).
SqLeq(y, n) ==
    LET yh == y \div 1000
        yl == y % 1000
        A  == 2 * yh * yl
        B  == yl * yl
        fl == yh * yh + ((A + (B \div 1000)) \div 1000)
        rm == ((A % 1000) * 1000 + B) % MantHi
    IN  fl < n \/ (fl = n /\ rm = 0)

RECURSIVE ISqrtSearch(_, _, _)
ISqrtSearch(lo, hi, n) ==
    IF lo >= hi THEN lo
    ELSE LET mid == (lo + hi + 1) \div 2
         IN  IF SqLeq(mid, n) THEN ISqrtSearch(mid, hi, n)
             ELSE ISqrtSearch(lo, mid - 1, n)

FSqrt(a) ==
    IF a = NaN \/ a[1] < 0 THEN NaN
    ELSE IF a[1] = 0 THEN Zero
    ELSE IF IsInf(a) THEN PInf
    ELSE LET odd == (a[2] % 2) = 1
             m2  == IF odd THEN a[1] * 10 ELSE a[1]
             e2  == IF odd THEN a[2] - 1 ELSE a[2]
         IN  Round(ISqrtSearch(316227, 3162278, m2), (e2 \div 2) - 3)

\* acos at the knots -1, -7/8, ..., 1, in units of 1e-4 rad.
AcosTable ==
    <<31416, 26362, 24189, 22459, 20944, 19552, 18235, 16961, 15708,
      14455, 13181, 11864, 10472, 8957, 7227, 5054, 0>>

\* a in thousandths, for |a| <= 1.
ToMilli(a) ==
    IF a[1] = 0 THEN 0
    ELSE LET k == 0 - a[2] - 3
         IN  IF k > 9 THEN 0 ELSE Sgn(a[1]) * (IAbs(a[1]) \div (10 ^ k))

\* acosf: NaN outside [-1, 1] (and for NaN), else the arc cosine, by linear
\* interpolation between the knots of AcosTable.
FAcos(a) ==
    IF a = NaN \/ FGt(FAbs(a), <<MantLo, -5>>) THEN NaN
    ELSE LET t == ToMilli(a) + 1000
             k == (t \div 125) + 1
             f == t % 125
             v == IF f = 0 THEN AcosTable[k]
                  ELSE AcosTable[k]
                       - (((AcosTable[k] - AcosTable[k + 1]) * f) \div 125)
         IN  Round(v, -4)

----------------------------------------------------------------------------
(* Constants of attitude.c and of the platform *)

UPDATE_RATE == 2
GYRO_NEUTRAL == 1665
FifoDrainCap == 32

\* Float literals of the source.
Flt(m, e) == Round(m, e)
One == Flt(1, 0)
Two == Flt(2, 0)
M_PI == Flt(314159, -5)
StartupKp == Flt(1, 0)
StartupKi == Flt(9, -1)
StartupYawBiasRate == Flt(23, -2)
DefaultGyroGain == Flt(42, -2)
AccelScale == Flt(4, -3)
Gravity == Flt(981, -2)
GravityLow == Flt(98, -1)
GravityFactor == Flt(15, -1)
MinDT == Flt(1, -3)
ReinitThreshold == Flt(1, -3)

ZeroVec == <<Zero, Zero, Zero>>
IdentityQuat == <<One, Zero, Zero, Zero>>
ZeroMat == <<ZeroVec, ZeroVec, ZeroVec>>

\* The tick counter is an unsigned 32-bit integer, kept as <<high, low>>
\* 16-bit halves: its value is high * 2^16 + low.
Half == 2 ^ 16
Tick(n) == <<0, n>>
TickMax == <<Half - 1, Half - 1>>
portMAX_DELAY == TickMax
portTICK_RATE_MS == 1

\* a - b modulo 2^32.
TickSub(a, b) ==
    LET lo == a[2] - b[2]
        br == IF lo < 0 THEN 1 ELSE 0
    IN  <<(a[1] - b[1] - br) % Half, lo % Half>>

\* a + n modulo 2^32, for 0 <= n < 2^16.
TickAdd(a, n) ==
    <<(a[1] + ((a[2] + n) \div Half)) % Half, (a[2] + n) % Half>>

\* a < b as unsigned 32-bit integers.
TickLt(a, b) == a[1] < b[1] \/ (a[1] = b[1] /\ a[2] < b[2])

\* Bitwise and with a mask of the form 2^k - 1 in each half.
TickAnd(mask, a) == <<a[1] % (mask[1] + 1), a[2] % (mask[2] + 1)>>

\* Unsigned integer division by a small divisor.
TickDiv(a, d) ==
    LET qh == a[1] \div d
        rh == a[1] % d
    IN  <<qh, ((rh * Half) + a[2]) \div d>>

\* Conversion of the unsigned integer to float.
TickToF(a) == FAdd(FMul(IntToF(a[1]), IntToF(Half)), IntToF(a[2]))

----------------------------------------------------------------------------
(* CoordinateConversions library *)

Dot3(a, b) == FAdd(FAdd(FMul(a[1], b[1]), FMul(a[2], b[2])), FMul(a[3], b[3]))

CrossProduct(v1, v2) ==
    << FSub(FMul(v1[2], v2[3]), FMul(v2[2], v1[3])),
       FSub(FMul(v2[1], v1[3]), FMul(v1[1], v2[3])),
       FSub(FMul(v1[1], v2[2]), FMul(v2[1], v1[2])) >>

rot_mult(M, vec) == << Dot3(M[1], vec), Dot3(M[2], vec), Dot3(M[3], vec) >>

\* cos and sin of half the angle, for the board rotations of SettingsVals.
CosHalfDeg(d) ==
    CASE d = 0 -> One
      [] d = 90 -> Flt(707107, -6)
      [] d = -90 -> Flt(707107, -6)
      [] d = 180 -> Zero

SinHalfDeg(d) ==
    CASE d = 0 -> Zero
      [] d = 90 -> Flt(707107, -6)
      [] d = -90 -> Flt(-707107, -6)
      [] d = 180 -> One

\* The quaternion with a non-negative scalar part that denotes the same
\* rotation.
PositiveW(qq) ==
    IF FLt(qq[1], Zero)
    THEN <<FNeg(qq[1]), FNeg(qq[2]), FNeg(qq[3]), FNeg(qq[4])>>
    ELSE qq

HalfAngleProducts(cphi, sphi, cthe, sthe, cpsi, spsi) ==
    << FAdd(FMul(FMul(cphi, cthe), cpsi), FMul(FMul(sphi, sthe), spsi)),
       FSub(FMul(FMul(sphi, cthe), cpsi), FMul(FMul(cphi, sthe), spsi)),
       FAdd(FMul(FMul(cphi, sthe), cpsi), FMul(FMul(sphi, cthe), spsi)),
       FSub(FMul(FMul(cphi, cthe), spsi), FMul(FMul(sphi, sthe), cpsi)) >>

RPY2Quaternion(rpy) ==
    PositiveW(HalfAngleProducts(CosHalfDeg(rpy[1]), SinHalfDeg(rpy[1]),
                                CosHalfDeg(rpy[2]), SinHalfDeg(rpy[2]),
                                CosHalfDeg(rpy[3]), SinHalfDeg(rpy[3])))

Quaternion2R(qq) ==
    LET q0s == FMul(qq[1], qq[1])
        q1s == FMul(qq[2], qq[2])
        q2s == FMul(qq[3], qq[3])
        q3s == FMul(qq[4], qq[4])
    IN  << << FSub(FSub(FAdd(q0s, q1s), q2s), q3s),
              FMul(Two, FAdd(FMul(qq[2], qq[3]), FMul(qq[1], qq[4]))),
              FMul(Two, FSub(FMul(qq[2], qq[4]), FMul(qq[1], qq[3]))) >>,
           << FMul(Two, FSub(FMul(qq[2], qq[3]), FMul(qq[1], qq[4]))),
              FSub(FAdd(FSub(q0s, q1s), q2s), q3s),
              FMul(Two, FAdd(FMul(qq[3], qq[4]), FMul(qq[1], qq[2]))) >>,
           << FMul(Two, FAdd(FMul(qq[2], qq[4]), FMul(qq[1], qq[3]))),
              FMul(Two, FSub(FMul(qq[3], qq[4]), FMul(qq[1], qq[2]))),
              FAdd(FSub(FSub(q0s, q1s), q2s), q3s) >> >>

----------------------------------------------------------------------------
(* updateSensors, after the queue receive and the FIFO check *)

\* The number of FIFO entries the drain loop reads when the FIFO holds n > 0.
DrainCount(n) == IF n > FifoDrainCap THEN FifoDrainCap ELSE n

RECURSIVE SumAxis(_, _, _)
SumAxis(samples, k, n) ==
    IF n = 0 THEN 0 ELSE samples[n][k] + SumAxis(samples, k, n - 1)

\* Lines 242-244: the received gyro floats to deg/s.
GyroScale(gyro, gain) ==
    << FMul(FNeg(FSub(gyro[2], IntToF(GYRO_NEUTRAL))), gain),
       FMul(FSub(gyro[3], IntToF(GYRO_NEUTRAL)), gain),
       FMul(FNeg(FSub(gyro[4], IntToF(GYRO_NEUTRAL))), gain) >>

\* Lines 246-260: the mean of the i FIFO entries read, y and z negated.
AccelMean(samples, i) ==
    << FDiv(IntToF(SumAxis(samples, 1, i)), IntToF(i)),
       FDiv(IntToF(0 - SumAxis(samples, 2, i)), IntToF(i)),
       FDiv(IntToF(0 - SumAxis(samples, 3, i)), IntToF(i)) >>

\* Lines 263-278: the board rotation, applied when rotate is set.
BoardRotate(rot, Rm, vec) == IF rot = 1 THEN rot_mult(Rm, vec) ELSE vec

\* Lines 281-283: accelerometer bias and scale to m/s^2.
AccelScaleBias(a, abias) ==
    << FMul(FMul(FSub(a[1], IntToF(abias[1])), AccelScale), Gravity),
       FMul(FMul(FSub(a[2], IntToF(abias[2])), AccelScale), Gravity),
       FMul(FMul(FSub(a[3], IntToF(abias[3])), AccelScale), Gravity) >>

\* Lines 285-290: the gyro bias estimate added to the rates.
GyroBiasCorrect(biasCorrect, g, gbias) ==
    IF biasCorrect
    THEN <<FAdd(g[1], gbias[1]), FAdd(g[2], gbias[2]), FAdd(g[3], gbias[3])>>
    ELSE g

\* Line 294: the yaw bias pulled towards a zero yaw rate.
UpdateSensorsYawBias(bias, gz, ybr) ==
    <<bias[1], bias[2], FAdd(bias[3], FMul(FNeg(gz), ybr))>>

SensorsResult(gyros, accels, remaining, i, gbias, ybr) ==
    [ gyros |-> gyros,
      accels |-> accels,
      gyrotemp |-> <<remaining, i>>,
      gyro_correct_int |-> UpdateSensorsYawBias(gbias, gyros[3], ybr) ]

\* gyro: the four floats received; samples: the FIFO entries read, each
\* <<x, y, z>> counts.  The result holds the conditioned gyros and accels and
\* the new gyro_correct_int.
UpdateSensors(gyro, samples, remaining, gain, rot, Rm, abias, bc, gbias, ybr) ==
    SensorsResult(
        GyroBiasCorrect(bc, BoardRotate(rot, Rm, GyroScale(gyro, gain)), gbias),
        AccelScaleBias(BoardRotate(rot, Rm, AccelMean(samples, Len(samples))),
                       abias),
        remaining, Len(samples), gbias, ybr)

----------------------------------------------------------------------------
(* updateAttitude *)

\* Fault: the time step without the guard for two calls in the same tick.
TimeStepNoGuard(thisSysTime, lastSysTime) ==
    FDiv(TickToF(TickDiv(TickAnd(portMAX_DELAY,
                                 TickSub(thisSysTime, lastSysTime)),
                         portTICK_RATE_MS)),
         Flt(1000, 0))

\* Line 305: dT in seconds from the tick counts of this call and of the
\* last one.
TimeStep(thisSysTime, lastSysTime) ==
    IF thisSysTime = lastSysTime THEN MinDT
    ELSE FDiv(TickToF(TickDiv(TickAnd(portMAX_DELAY,
                                      TickSub(thisSysTime, lastSysTime)),
                              portTICK_RATE_MS)),
              Flt(1000, 0))

\* Fault: the sanity check without its upper limit.
RejectAccelLowOnly(accel_mag) == FLe(accel_mag, GravityLow)

\* Line 350: the sanity check on the acceleration magnitude, TRUE when the
\* error vector is zeroed.
RejectAccel(accel_mag) ==
    FLe(accel_mag, GravityLow) \/ FGt(accel_mag, FMul(GravityFactor, GravityLow))

Norm3(v) == FSqrt(FAdd(FAdd(FMul(v[1], v[1]), FMul(v[2], v[2])), FMul(v[3], v[3])))
Norm4(v) ==
    FSqrt(FAdd(FAdd(FAdd(FMul(v[1], v[1]), FMul(v[2], v[2])), FMul(v[3], v[3])),
               FMul(v[4], v[4])))

\* Lines 321-323: the gravity direction the attitude estimate predicts.
Grot(qq) ==
    << FNeg(FMul(Two, FSub(FMul(qq[2], qq[4]), FMul(qq[1], qq[3])))),
       FNeg(FMul(Two, FAdd(FMul(qq[3], qq[4]), FMul(qq[1], qq[2])))),
       FNeg(FAdd(FSub(FSub(FMul(qq[1], qq[1]), FMul(qq[2], qq[2])),
                      FMul(qq[3], qq[3])),
                 FMul(qq[4], qq[4]))) >>

\* Lines 331-335: the error vector stretched to the length error_phi.
ScaleError(accel_err, error_phi, accel_err_mag) ==
    IF FGt(accel_err_mag, Zero)
    THEN << FMul(accel_err[1], FDiv(error_phi, accel_err_mag)),
            FMul(accel_err[2], FDiv(error_phi, accel_err_mag)),
            FMul(accel_err[3], FDiv(error_phi, accel_err_mag)) >>
    ELSE accel_err

\* Lines 324-329: the cross product, the angle and the magnitude.
ErrorAngle(accel_err, error_phi) ==
    ScaleError(accel_err, error_phi, Norm3(accel_err))

GravityError(accels, grot) ==
    ErrorAngle(CrossProduct(accels, grot), FAcos(Dot3(accels, grot)))

\* Lines 350-369: the error zeroed, or shortened by the displacement angle.
Displace(accel_err, accel_mag, displacement, length) ==
    IF RejectAccel(accel_mag) THEN ZeroVec
    ELSE IF FGt(length, Zero)
         THEN << FSub(accel_err[1],
                      FDiv(FMul(accel_err[1], displacement), length)),
                 FSub(accel_err[2],
                      FDiv(FMul(accel_err[2], displacement), length)),
                 FSub(accel_err[3],
                      FDiv(FMul(accel_err[3], displacement), length)) >>
         ELSE accel_err

SanityCheck(accel_err, accel_mag) ==
    Displace(accel_err, accel_mag, FAcos(FDiv(GravityLow, accel_mag)),
             Norm3(accel_err))

\* Lines 321-369: the gravity-reference error vector.
AccelError(accels, qq, accel_mag) ==
    SanityCheck(GravityError(accels, Grot(qq)), accel_mag)

\* Lines 372-373: the error integrated into the x and y gyro bias.
BiasIntegrate(gbias, accel_err, ki) ==
    << FAdd(gbias[1], FMul(accel_err[1], ki)),
       FAdd(gbias[2], FMul(accel_err[2], ki)),
       gbias[3] >>

\* Lines 378-380: the error fed back into the rates.
RateCorrect(gyros, accel_err, kp, dT) ==
    << FAdd(gyros[1], FDiv(FMul(accel_err[1], kp), dT)),
       FAdd(gyros[2], FDiv(FMul(accel_err[2], kp), dT)),
       FAdd(gyros[3], FDiv(FMul(accel_err[3], kp), dT)) >>

\* Lines 407-420: the renormalisation and the re-initialisation of a short
\* or NaN quaternion.
Rescale(qq, qmag) ==
    IF FLt(FAbs(qmag), ReinitThreshold) \/ ~FEq(qmag, qmag)
    THEN IdentityQuat
    ELSE <<FDiv(qq[1], qmag), FDiv(qq[2], qmag), FDiv(qq[3], qmag),
           FDiv(qq[4], qmag)>>

Renormalize(qq) == Rescale(qq, Norm4(qq))

\* Lines 387-390: one component of qdot: the float v * dT, times the double
\* M_PI / 180 / 2, stored as a float.
HalfStep(v, dT) ==
    ToFloat(DDiv(DDiv(DMul(FMul(v, dT), M_PI), Flt(180, 0)), Two))

Qdot(qq, gyro, dT) ==
    << HalfStep(FSub(FSub(FMul(FNeg(qq[2]), gyro[1]), FMul(qq[3], gyro[2])),
                     FMul(qq[4], gyro[3])), dT),
       HalfStep(FAdd(FSub(FMul(qq[1], gyro[1]), FMul(qq[4], gyro[2])),
                     FMul(qq[3], gyro[3])), dT),
       HalfStep(FSub(FAdd(FMul(qq[4], gyro[1]), FMul(qq[1], gyro[2])),
                     FMul(qq[2], gyro[3])), dT),
       HalfStep(FAdd(FAdd(FMul(FNeg(qq[3]), gyro[1]), FMul(qq[2], gyro[2])),
                     FMul(qq[1], gyro[3])), dT) >>

QAdd(qq, qdot) ==
    <<FAdd(qq[1], qdot[1]), FAdd(qq[2], qdot[2]), FAdd(qq[3], qdot[3]),
      FAdd(qq[4], qdot[4])>>

\* Lines 387-403: one propagation step of the quaternion with the corrected
\* rates, kept in the hemisphere of non-negative q[0].
Propagate(qq, gyro, dT) == PositiveW(QAdd(qq, Qdot(qq, gyro, dT)))

AttitudeResult(qq, gyro, bias, thisSysTime, dT, accel_mag, accel_err) ==
    [ q |-> Renormalize(Propagate(qq, gyro, dT)),
      gyro_correct_int |-> bias,
      lastSysTime |-> thisSysTime,
      dT |-> dT,
      accel_mag |-> accel_mag,
      accel_err |-> accel_err,
      rates |-> gyro ]

Correct(raw, qq, gbias, thisSysTime, dT, accel_mag, accel_err, ki, kp) ==
    AttitudeResult(qq, RateCorrect(raw.gyros, accel_err, kp, dT),
                   BiasIntegrate(gbias, accel_err, ki), thisSysTime, dT,
                   accel_mag, accel_err)

Fusion(raw, qq, gbias, thisSysTime, dT, accel_mag, ki, kp) ==
    Correct(raw, qq, gbias, thisSysTime, dT, accel_mag,
            AccelError(raw.accels, qq, accel_mag), ki, kp)

\* updateAttitude: the new q, gyro_correct_int and lastSysTime, and the
\* intermediate dT, accel_mag, accel_err and corrected rates.
UpdateAttitude(raw, qq, gbias, thisSysTime, lastSysTime, ki, kp) ==
    Fusion(raw, qq, gbias, thisSysTime, TimeStep(thisSysTime, lastSysTime),
           Norm3(raw.accels), ki, kp)

----------------------------------------------------------------------------
(* Bounds and input sets *)

MaxCycles == 2
MaxWrites == 1
MaxUACalls == 2

\* AttitudeSettings snapshots: the defaults, and two boards mounted rotated.
SettingsVals ==
    << [ AccelKp |-> Flt(5, -2), AccelKi |-> Flt(1, -4),
         YawBiasRate |-> Flt(1, -6), GyroGain |-> DefaultGyroGain,
         ZeroDuringArming |-> TRUE, BiasCorrectGyro |-> TRUE,
         AccelBias |-> <<0, 0, 0>>, GyroBias |-> <<0, 0, 0>>,
         BoardRotation |-> <<0, 0, 0>> ],
       [ AccelKp |-> Flt(1, -1), AccelKi |-> Flt(2, -4),
         YawBiasRate |-> Flt(1, -5), GyroGain |-> DefaultGyroGain,
         ZeroDuringArming |-> FALSE, BiasCorrectGyro |-> TRUE,
         AccelBias |-> <<0, 0, 0>>, GyroBias |-> <<50, 0, 0>>,
         BoardRotation |-> <<0, 0, 90>> ],
       [ AccelKp |-> Flt(5, -2), AccelKi |-> Flt(1, -4),
         YawBiasRate |-> Flt(1, -6), GyroGain |-> DefaultGyroGain,
         ZeroDuringArming |-> TRUE, BiasCorrectGyro |-> TRUE,
         AccelBias |-> <<0, 0, 0>>, GyroBias |-> <<0, 0, 0>>,
         BoardRotation |-> <<180, 0, 0>> ] >>

SettingsIds == 1 .. Len(SettingsVals)

\* Gyro queue samples <<temperature, x, y, z>> in ADC counts.
GyroSamples == { <<Zero, Flt(1765, 0), Flt(1665, 0), Flt(1600, 0)>> }

\* What PIOS_ADXL345_FifoElements() may return.
FifoCounts == { 0, 1 }

\* Accelerometer FIFO entries in counts.
AccelSamples == { <<13, 0, 240>> }

\* Tick counts at which the first modelled cycle begins: the cycles that
\* follow cross the lower and the upper edge of the startup window.
StartTicks == { Tick(1000), Tick(6998) }

ArmedVals == { "Disarmed", "Arming" }

----------------------------------------------------------------------------
(* State *)

VARIABLES
    \* file-scope variables of attitude.c
    accelKi, accelKp, yawBiasRate, gyroGain, accelbias, q, R, rotate,
    zero_during_arming, bias_correct_gyro, gyro_correct_int, lastSysTime,
    \* AttitudeTask: position, init, the received gyro sample, attitudeRaw
    pc, init, gyro, attitudeRaw,
    \* platform: the tick counter, accelerometer FIFO fill, the
    \* AttitudeSettings object and its queued change event, the Attitude
    \* alarm, the number of publications of AttitudeRaw and AttitudeActual
    tick, fifoElements, settings, cbPending, alarm, rawPublished, actualPublished,
    \* settingsUpdatedCb on the dispatcher thread: position and its local
    \* attitudeSettings snapshot
    cbpc, attitudeSettings,
    \* history: main-loop cycles begun, the outcomes of the last two completed
    \* cycles, settings writes, the watchdog flag updated by the last
    \* iteration, a completed pass of the startup wait loop, what the policy
    \* read, what the stages used, no callback activity since the policy, and
    \* the last updateAttitude call
    nCycles, outcome, prevOutcome, nWrites, wdgUpdated, waited, pol, used,
    cbQuiet, obs

statics == <<accelKi, accelKp, yawBiasRate, gyroGain, accelbias, q, R, rotate,
             zero_during_arming, bias_correct_gyro, gyro_correct_int,
             lastSysTime>>
gains == <<accelKi, accelKp, yawBiasRate>>
cbflags == <<gyroGain, accelbias, zero_during_arming, bias_correct_gyro>>
filter == <<q, gyro_correct_int, lastSysTime>>
rotation == <<R, rotate>>
task == <<pc, init, gyro, attitudeRaw>>
platform == <<tick, fifoElements, settings, cbPending, alarm, rawPublished,
              actualPublished>>
dispatcher == <<cbpc, attitudeSettings>>
cycles == <<nCycles, outcome, prevOutcome>>
ghosts == <<cycles, nWrites, wdgUpdated, waited, pol, used, cbQuiet, obs>>
vars == <<statics, task, platform, dispatcher, ghosts>>

NoPol == [ tick |-> Tick(0), arming |-> FALSE, forced |-> FALSE ]
NoUsed == [ kp |-> Zero, ki |-> Zero, ybr |-> Zero, rotate |-> 0, R |-> ZeroMat ]
NoObs == [ dT |-> Zero, accel_mag |-> Zero, accel_err |-> ZeroVec,
           rates |-> ZeroVec, raw |-> ZeroVec, now |-> Tick(0),
           last |-> Tick(0), bias |-> ZeroVec ]
NoRaw == [ gyros |-> ZeroVec, accels |-> ZeroVec, gyrotemp |-> <<0, 0>> ]
NoGyro == <<Zero, Zero, Zero, Zero>>

\* The state AttitudeInitialize leaves, with the task not yet started and
\* the dispatcher idle.
Boot ==
    /\ accelKi = Zero /\ accelKp = Zero /\ yawBiasRate = Zero
    /\ gyroGain = DefaultGyroGain
    /\ accelbias = <<0, 0, 0>>
    /\ q = IdentityQuat
    /\ R = ZeroMat
    /\ rotate = 0
    /\ zero_during_arming = FALSE
    /\ bias_correct_gyro = TRUE
    /\ gyro_correct_int = ZeroVec
    /\ lastSysTime = Tick(0)
    /\ init = 0 /\ gyro = NoGyro /\ attitudeRaw = NoRaw
    /\ fifoElements = 0
    /\ cbPending = FALSE
    /\ alarm = "Uninitialised"
    /\ rawPublished = 0 /\ actualPublished = 0
    /\ cbpc = "idle" /\ attitudeSettings = 0
    /\ nCycles = 0 /\ outcome = "none" /\ prevOutcome = "none"
    /\ nWrites = 0 /\ wdgUpdated = FALSE /\ waited = FALSE
    /\ pol = NoPol /\ used = NoUsed /\ cbQuiet = TRUE /\ obs = NoObs

\* After AttitudeInitialize and AttitudeStart, with the settings object
\* loaded from flash (a board mounted rotated) and the task at its first
\* statement.
Init ==
    /\ Boot
    /\ pc = "start"
    /\ tick \in StartTicks
    /\ settings = 2

----------------------------------------------------------------------------
(* Platform services *)

AlarmsClear == "Clear"
AlarmsSet(severity) == severity

\* Fault: an iteration that leaves the watchdog flag as it was.
WdgNoUpdate(flag) == flag

PIOS_WDG_UpdateFlag(flag) == TRUE

\* Fault: a failed updateSensors that leaves the alarm as it was.
AlarmUnchanged(cur) == cur

\* Line 210: the alarm the main loop leaves after updateSensors failed.
AlarmOnSensorError(cur) == AlarmsSet("Error")

\* Fault: a complete update that leaves the alarm as it was.
AlarmKeep(cur) == cur

\* Line 215: the alarm the main loop leaves after a complete update.
AlarmOnSuccess(cur) == AlarmsClear

----------------------------------------------------------------------------
(* settingsUpdatedCb: what it stores from the snapshot s *)

CbGains(s) == <<s.AccelKi, s.AccelKp, s.YawBiasRate>>

CbGyroBias(s) ==
    << FDiv(IntToF(s.GyroBias[1]), Flt(100, 0)),
       FDiv(IntToF(s.GyroBias[2]), Flt(100, 0)),
       FDiv(IntToF(s.GyroBias[3]), Flt(100, 0)) >>

NoBoardRotation(s) ==
    s.BoardRotation[1] = 0 /\ s.BoardRotation[2] = 0 /\ s.BoardRotation[3] = 0

CbR(s) ==
    IF NoBoardRotation(s) THEN Quaternion2R(IdentityQuat)
    ELSE Quaternion2R(RPY2Quaternion(s.BoardRotation))

CbRotate(s) == IF NoBoardRotation(s) THEN 0 ELSE 1

\* Fault: the reload with AccelKi and AccelKp exchanged.
ReloadGainsSwapped(s) == <<s.AccelKp, s.AccelKi, s.YawBiasRate>>

\* Lines 198-200: the gains the main loop reloads from the settings object.
ReloadGains(s) == <<s.AccelKi, s.AccelKp, s.YawBiasRate>>

\* The startup policy: TRUE when the high gains are forced.  Both reads of
\* the tick counter in the condition return t.
InStartupWindow(t) == TickLt(t, Tick(7000)) /\ TickLt(Tick(1000), t)
ZeroingWhileArming(zda, armed) == zda /\ armed = "Arming"

----------------------------------------------------------------------------
(* AttitudeTask *)

\* Lines 161-168: init = 0, AlarmsClear, sensor configuration.
TaskStart ==
    /\ pc = "start"
    /\ init' = 0
    /\ alarm' = AlarmsClear
    /\ pc' = "wait"
    /\ UNCHANGED <<statics, gyro, attitudeRaw, tick, fifoElements, settings,
                   cbPending, rawPublished, actualPublished, dispatcher, ghosts>>

\* Lines 171-174: one evaluation of the condition of the startup wait loop
\* and, when the FIFO is empty, one pass of its body.  The FIFO holds at
\* least what it held before; n is what PIOS_ADXL345_FifoElements() returns.
WaitAccel ==
    /\ pc = "wait"
    /\ \E n \in { c \in FifoCounts : c >= fifoElements } :
          /\ fifoElements' = n
          /\ IF n = 0
             THEN /\ alarm' = AlarmsSet("Critical")
                  /\ wdgUpdated' = PIOS_WDG_UpdateFlag(FALSE)
                  /\ waited' = TRUE
                  /\ pc' = "wait"
             ELSE /\ pc' = "force"
                  /\ UNCHANGED <<alarm, wdgUpdated, waited>>
    /\ UNCHANGED <<statics, init, gyro, attitudeRaw, tick, settings,
                   cbPending, rawPublished, actualPublished, dispatcher, cycles,
                   nWrites, pol, used, cbQuiet, obs>>

\* Line 177: settingsUpdatedCb called on the task's own thread.
ForceSettings ==
    /\ pc = "force"
    /\ LET s == SettingsVals[settings]
       IN  /\ accelKi' = CbGains(s)[1]
           /\ accelKp' = CbGains(s)[2]
           /\ yawBiasRate' = CbGains(s)[3]
           /\ gyroGain' = s.GyroGain
           /\ zero_during_arming' = s.ZeroDuringArming
           /\ bias_correct_gyro' = s.BiasCorrectGyro
           /\ accelbias' = s.AccelBias
           /\ gyro_correct_int' = CbGyroBias(s)
           /\ rotate' = CbRotate(s)
           /\ R' = CbR(s)
    /\ pc' = "policy"
    /\ UNCHANGED <<q, lastSysTime, init, gyro, attitudeRaw, platform,
                   dispatcher, ghosts>>

\* Lines 182-208: flight status, the tick counter, the choice of gains, the
\* watchdog flag, AttitudeRawGet.
Policy ==
    /\ pc = "policy"
    /\ nCycles < MaxCycles
    /\ \E armed \in ArmedVals :
          LET arming == ZeroingWhileArming(zero_during_arming, armed)
              forced == InStartupWindow(tick) \/ arming
          IN  /\ IF forced
                 THEN /\ accelKp' = StartupKp
                      /\ accelKi' = StartupKi
                      /\ yawBiasRate' = StartupYawBiasRate
                      /\ init' = 0
                 ELSE IF init = 0
                 THEN /\ accelKi' = ReloadGains(SettingsVals[settings])[1]
                      /\ accelKp' = ReloadGains(SettingsVals[settings])[2]
                      /\ yawBiasRate' = ReloadGains(SettingsVals[settings])[3]
                      /\ init' = 1
                 ELSE UNCHANGED <<gains, init>>
              /\ pol' = [ tick |-> tick, arming |-> arming, forced |-> forced ]
    /\ wdgUpdated' = PIOS_WDG_UpdateFlag(FALSE)
    /\ nCycles' = nCycles + 1
    /\ used' = NoUsed
    /\ cbQuiet' = (cbpc = "idle" /\ ~cbPending)
    /\ pc' = "recv"
    /\ UNCHANGED <<cbflags, filter, rotation, gyro, attitudeRaw, platform,
                   dispatcher, outcome, prevOutcome, nWrites, waited, obs>>

\* updateSensors lines 232-235 and the caller's line 210: the queue receive
\* timed out, two update periods after the call.
RecvTimeout ==
    /\ pc = "recv"
    /\ tick' = TickAdd(tick, UPDATE_RATE * 2)
    /\ alarm' = AlarmOnSensorError(AlarmsSet("Error"))
    /\ outcome' = "timeout"
    /\ prevOutcome' = outcome
    /\ pc' = "policy"
    /\ UNCHANGED <<statics, init, gyro, attitudeRaw, fifoElements, settings,
                   cbPending, rawPublished, actualPublished, dispatcher,
                   nCycles, nWrites, wdgUpdated, waited, pol, used, cbQuiet,
                   obs>>

\* updateSensors line 232: the queue receive delivered the sample of this
\* update period.
RecvSample ==
    /\ pc = "recv"
    /\ \E g \in GyroSamples : gyro' = g
    /\ tick' = TickAdd(tick, UPDATE_RATE)
    /\ pc' = "cond"
    /\ UNCHANGED <<statics, init, attitudeRaw, fifoElements, settings,
                   cbPending, alarm, rawPublished, actualPublished, dispatcher,
                   ghosts>>

\* updateSensors lines 238-296, and the caller's line 210 when the FIFO is
\* empty.
Condition ==
    /\ pc = "cond"
    /\ \E n \in { c \in FifoCounts : c >= fifoElements } :
          IF n = 0
          THEN /\ alarm' = AlarmOnSensorError(alarm)
               /\ outcome' = "accel_empty"
               /\ prevOutcome' = outcome
               /\ pc' = "policy"
               /\ fifoElements' = 0
               /\ UNCHANGED <<statics, attitudeRaw, used>>
          ELSE \E samples \in [1 .. DrainCount(n) -> AccelSamples] :
                 \E r \in { UpdateSensors(gyro, samples, n - DrainCount(n),
                                          gyroGain, rotate, R, accelbias,
                                          bias_correct_gyro, gyro_correct_int,
                                          yawBiasRate) } :
                     /\ attitudeRaw' = [ gyros |-> r.gyros, accels |-> r.accels,
                                         gyrotemp |-> r.gyrotemp ]
                     /\ gyro_correct_int' = r.gyro_correct_int
                     /\ fifoElements' = n - DrainCount(n)
                     /\ used' = [ used EXCEPT !.ybr = yawBiasRate,
                                              !.rotate = rotate,
                                              !.R = IF rotate = 1 THEN R
                                                    ELSE ZeroMat ]
                     /\ pc' = "fuse"
                     /\ UNCHANGED <<gains, cbflags, q, lastSysTime, rotation,
                                    alarm, outcome, prevOutcome>>
    /\ UNCHANGED <<init, gyro, tick, settings, cbPending, rawPublished,
                   actualPublished, dispatcher, nCycles, nWrites, wdgUpdated,
                   waited, pol, cbQuiet, obs>>

\* Lines 213-215: updateAttitude, AttitudeRawSet, AlarmsClear.
Fuse ==
    /\ pc = "fuse"
    /\ \E r \in { UpdateAttitude(attitudeRaw, q, gyro_correct_int, tick,
                                  lastSysTime, accelKi, accelKp) } :
           /\ q' = r.q
           /\ gyro_correct_int' = r.gyro_correct_int
           /\ lastSysTime' = r.lastSysTime
    /\ used' = [ used EXCEPT !.kp = accelKp, !.ki = accelKi ]
    /\ actualPublished' = actualPublished + 1
    /\ rawPublished' = rawPublished + 1
    /\ alarm' = AlarmOnSuccess(alarm)
    /\ outcome' = "ok"
    /\ prevOutcome' = outcome
    /\ pc' = "policy"
    /\ UNCHANGED <<gains, cbflags, rotation, init, gyro, attitudeRaw, tick,
                   fifoElements, settings, cbPending, dispatcher, nCycles,
                   nWrites, wdgUpdated, waited, pol, cbQuiet, obs>>

----------------------------------------------------------------------------
(* The settings object and settingsUpdatedCb on the dispatcher thread *)

\* AttitudeSettingsSet by another module or the ground station.
SettingsSet ==
    /\ nWrites < MaxWrites
    /\ \E s \in SettingsIds : settings' = s
    /\ cbPending' = TRUE
    /\ nWrites' = nWrites + 1
    /\ cbQuiet' = FALSE
    /\ UNCHANGED <<statics, task, tick, fifoElements, alarm, rawPublished,
                   actualPublished, dispatcher, cycles, wdgUpdated, waited,
                   pol, used, obs>>

\* Lines 434-452: the snapshot, the gains, the flags, the accelerometer
\* bias and the gyro bias seed.
CbBegin ==
    /\ cbpc = "idle"
    /\ cbPending
    /\ cbPending' = FALSE
    /\ attitudeSettings' = settings
    /\ LET s == SettingsVals[settings]
       IN  /\ accelKi' = CbGains(s)[1]
           /\ accelKp' = CbGains(s)[2]
           /\ yawBiasRate' = CbGains(s)[3]
           /\ gyroGain' = s.GyroGain
           /\ zero_during_arming' = s.ZeroDuringArming
           /\ bias_correct_gyro' = s.BiasCorrectGyro
           /\ accelbias' = s.AccelBias
           /\ gyro_correct_int' = CbGyroBias(s)
    /\ cbpc' = "rot"
    /\ cbQuiet' = FALSE
    /\ UNCHANGED <<q, lastSysTime, rotation, task, tick, fifoElements,
                   settings, alarm, rawPublished, actualPublished, cycles, nWrites,
                   wdgUpdated, waited, pol, used, obs>>

\* Lines 455-457 (rotate = 0), or lines 463-468 up to the first row of R
\* that Quaternion2R stores.
CbRot ==
    /\ cbpc = "rot"
    /\ LET s == SettingsVals[attitudeSettings]
       IN  IF NoBoardRotation(s)
           THEN rotate' = 0 /\ R' = R
           ELSE rotate' = rotate /\ R' = [R EXCEPT ![1] = CbR(s)[1]]
    /\ cbpc' = "rows"
    /\ cbQuiet' = FALSE
    /\ UNCHANGED <<gains, cbflags, filter, task, platform, attitudeSettings,
                   cycles, nWrites, wdgUpdated, waited, pol, used, obs>>

\* Quaternion2R (line 461 or 468) storing the remaining rows of R.
CbRows ==
    /\ cbpc = "rows"
    /\ LET s == SettingsVals[attitudeSettings]
       IN  /\ R' = CbR(s)
           /\ IF NoBoardRotation(s)
              THEN cbpc' = "idle" /\ attitudeSettings' = 0
              ELSE cbpc' = "set" /\ attitudeSettings' = attitudeSettings
    /\ cbQuiet' = FALSE
    /\ UNCHANGED <<gains, cbflags, filter, rotate, task, platform, cycles,
                   nWrites, wdgUpdated, waited, pol, used, obs>>

\* Line 469: rotate = 1.
CbRotateSet ==
    /\ cbpc = "set"
    /\ rotate' = 1
    /\ cbpc' = "idle"
    /\ attitudeSettings' = 0
    /\ cbQuiet' = FALSE
    /\ UNCHANGED <<gains, cbflags, filter, R, task, platform, cycles, nWrites,
                   wdgUpdated, waited, pol, used, obs>>

Next ==
    \/ TaskStart
    \/ WaitAccel
    \/ ForceSettings
    \/ Policy
    \/ RecvTimeout
    \/ RecvSample
    \/ Condition
    \/ Fuse
    \/ SettingsSet
    \/ CbBegin
    \/ CbRot
    \/ CbRows
    \/ CbRotateSet

Spec == Init /\ [][Next]_vars

----------------------------------------------------------------------------
(* updateAttitude alone: calls on inputs drawn from bounded sets *)

\* Rates in deg/s: a slow turn, a rate whose propagated quaternion overflows
\* when squared, and NaN.
UAGyros ==
    { <<Flt(10, 0), Flt(-5, 0), Flt(3, 0)>>,
      <<Flt(1, 30), Zero, Zero>>,
      <<NaN, Zero, Zero>> }

\* Accelerations in m/s^2: at rest and level (9.81), at rest and tilted,
\* of magnitude exactly 1.5 * 9.8, and above it.
UAAccels ==
    { <<Zero, Zero, Flt(-981, -2)>>,
      <<Flt(5, -1), Zero, Flt(-981, -2)>>,
      <<Flt(147, -1), Zero, Zero>>,
      <<Flt(20, 0), Zero, Zero>> }

\* Tick counts the calls read.
UATicks == { Tick(0), Tick(2), TickMax }

\* <<accelKi, accelKp>>: the startup gains and configured gains.
UAGains == { <<StartupKi, StartupKp>>, <<Flt(1, -4), Flt(5, -2)>> }

InitUA ==
    /\ \E g \in UAGains : accelKi = g[1] /\ accelKp = g[2]
    /\ yawBiasRate = Zero
    /\ gyroGain = DefaultGyroGain
    /\ accelbias = <<0, 0, 0>>
    /\ q = IdentityQuat
    /\ R = ZeroMat
    /\ rotate = 0
    /\ zero_during_arming = FALSE
    /\ bias_correct_gyro = TRUE
    /\ gyro_correct_int = ZeroVec
    /\ lastSysTime = Tick(0)
    /\ pc = "ua"
    /\ init = 0 /\ gyro = NoGyro /\ attitudeRaw = NoRaw
    /\ tick = Tick(0)
    /\ fifoElements = 0
    /\ settings = 1
    /\ cbPending = FALSE
    /\ alarm = "Clear"
    /\ rawPublished = 0 /\ actualPublished = 0
    /\ cbpc = "idle" /\ attitudeSettings = 0
    /\ nCycles = 0 /\ outcome = "none" /\ prevOutcome = "none"
    /\ nWrites = 0 /\ wdgUpdated = FALSE /\ waited = FALSE
    /\ pol = NoPol /\ used = NoUsed /\ cbQuiet = TRUE /\ obs = NoObs

\* One call of updateAttitude.
UACall ==
    /\ pc = "ua"
    /\ nCycles < MaxUACalls
    /\ \E g \in UAGyros, a \in UAAccels, t \in UATicks :
          \E r \in { UpdateAttitude([ gyros |-> g, accels |-> a,
                                      gyrotemp |-> <<0, 1>> ],
                                    q, gyro_correct_int, t, lastSysTime,
                                    accelKi, accelKp) } :
             /\ attitudeRaw' = [ gyros |-> g, accels |-> a,
                                 gyrotemp |-> <<0, 1>> ]
             /\ tick' = t
             /\ q' = r.q
             /\ gyro_correct_int' = r.gyro_correct_int
             /\ lastSysTime' = r.lastSysTime
             /\ obs' = [ dT |-> r.dT, accel_mag |-> r.accel_mag,
                         accel_err |-> r.accel_err, rates |-> r.rates,
                         raw |-> g, now |-> t, last |-> lastSysTime,
                         bias |-> gyro_correct_int ]
    /\ actualPublished' = actualPublished + 1
    /\ nCycles' = nCycles + 1
    /\ outcome' = "ok"
    /\ prevOutcome' = outcome
    /\ UNCHANGED <<gains, cbflags, rotation, pc, init, gyro, fifoElements,
                   settings, cbPending, alarm, rawPublished, dispatcher,
                   nWrites, wdgUpdated, waited, pol, used, cbQuiet>>

NextUA == UACall

SpecUA == InitUA /\ [][NextUA]_vars

----------------------------------------------------------------------------
(* Properties *)

\* updateAttitude has returned at least once.
Called == pc = "ua" /\ nCycles > 0

\* A main-loop cycle has run to its end and the next has not begun.
CycleDone(o) == pc = "policy" /\ nCycles > 0 /\ outcome = o

UpperLimit == FMul(GravityFactor, GravityLow)

\* C1: after every call of updateAttitude q[0] >= 0 and the magnitude of q
\* is within 0.001 of 1, whatever the magnitude before the renormalisation
\* was (infinite, NaN or below the re-initialisation threshold included).
C1_UnitQuaternion ==
    Called =>
        /\ FGe(q[1], Zero)
        /\ FGe(Norm4(q), Flt(999, -3))
        /\ FLe(Norm4(q), Flt(1001, -3))

\* C2: a cycle whose gyro receive times out sets the alarm to Error, does
\* not call updateAttitude, leaves q, gyro_correct_int and lastSysTime as
\* they were, publishes neither AttitudeRaw nor AttitudeActual and returns to
\* the head of the loop; a cycle that completes the update ends with the
\* alarm cleared.
C2_GyroTimeout ==
    [][ /\ (pc = "policy" /\ pc' = "recv") =>
               UNCHANGED <<filter, rawPublished, actualPublished>>
        /\ (pc = "recv" /\ pc' \notin {"recv", "cond"}) =>
               /\ pc' = "policy"
               /\ alarm' = "Error"
               /\ UNCHANGED <<filter, rawPublished, actualPublished>>
        /\ (pc = "fuse" /\ pc' # "fuse") =>
               /\ pc' = "policy"
               /\ alarm' = "Clear" ]_vars

\* A completed update that follows a cycle with a gyro timeout.
C2_Witness ==
    CycleDone("ok") /\ prevOutcome = "timeout" /\ alarm = "Clear"

\* C3 as stated: a cycle that finds the accelerometer FIFO empty skips the
\* fusion and leaves the alarm at the level it had.
C3_AlarmUnchanged ==
    [][ (pc = "cond" /\ pc' = "policy") =>
            /\ alarm' = alarm
            /\ UNCHANGED <<filter, rawPublished, actualPublished>> ]_vars

\* C3 as the code has it: a cycle that finds the accelerometer FIFO empty
\* skips the fusion, publishes nothing and leaves the alarm at Error.
C3_AlarmError ==
    [][ (pc = "cond" /\ pc' = "policy") =>
            /\ alarm' = "Error"
            /\ UNCHANGED <<filter, rawPublished, actualPublished>> ]_vars

\* An empty FIFO in the cycle after a completed update, which had cleared
\* the alarm.
C3_Witness ==
    CycleDone("accel_empty") /\ prevOutcome = "ok" /\ alarm = "Error"

\* C4: a cycle whose policy reads a tick count inside the startup window, or
\* finds zero_during_arming set and the vehicle arming, runs with accelKp =
\* 1.0, accelKi = 0.9 and yawBiasRate = 0.23, however the settings callback
\* interleaves.  (Stated for tick counts strictly inside the window.)
C4_StartupGains ==
    ( /\ CycleDone("ok")
      /\ \/ TickLt(Tick(1000), pol.tick) /\ TickLt(pol.tick, Tick(7000))
         \/ pol.arming )
    => /\ used.kp = StartupKp
       /\ used.ki = StartupKi
       /\ used.ybr = StartupYawBiasRate

\* The cycle began with every settings write handled by the callback, at
\* least one such write, and no write or callback step since.
SettingsSettled == cbQuiet /\ nWrites > 0

UsedConfigured ==
    /\ used.kp = SettingsVals[settings].AccelKp
    /\ used.ki = SettingsVals[settings].AccelKi
    /\ used.ybr = SettingsVals[settings].YawBiasRate

ErrorDropped ==
    /\ obs.accel_err = ZeroVec
    /\ gyro_correct_int[1] = obs.bias[1]
    /\ gyro_correct_int[2] = obs.bias[2]
    /\ obs.rates = obs.raw

\* C6 as stated: when the acceleration magnitude is exactly 1.5 * 9.8 the
\* error vector is zeroed and adds nothing to gyro_correct_int[0..1] or to
\* the rates.
C6_ZeroedAtLimit == (Called /\ obs.accel_mag = UpperLimit) => ErrorDropped

\* C6 as the code has it: the error vector is zeroed, and adds nothing to
\* gyro_correct_int[0..1] or to the rates, when the acceleration magnitude is
\* at most 9.8 or above 1.5 * 9.8.
C6_ZeroedOutside ==
    ( /\ Called
      /\ \/ FLe(obs.accel_mag, GravityLow)
         \/ FGt(obs.accel_mag, UpperLimit) )
    => ErrorDropped

\* A call with a magnitude above the limit and non-zero rates.
C6_Witness ==
    /\ Called
    /\ FGt(obs.accel_mag, UpperLimit)
    /\ ErrorDropped
    /\ obs.raw[1] = Flt(10, 0)

\* C7: every iteration updates the watchdog flag, those of the startup wait
\* loop included; while the accelerometer FIFO is empty at boot the alarm is
\* Critical and the task stays in the wait loop, which it leaves only with a
\* non-empty FIFO.
C7_Watchdog ==
    /\ (pc \in {"recv", "cond", "fuse"}) => wdgUpdated
    /\ (pc = "policy" /\ nCycles > 0) => wdgUpdated
    /\ (pc = "wait" /\ waited) =>
           (wdgUpdated /\ alarm = "Critical" /\ fifoElements = 0 /\ nCycles = 0)
    /\ (pc = "force") => fifoElements > 0

\* A pass of the wait loop with the FIFO empty.
C7_Witness ==
    pc = "wait" /\ waited /\ wdgUpdated /\ alarm = "Critical"

\* The rotation matrices the settings snapshots denote.
ConfiguredRotations ==
    { CbR(SettingsVals[i]) : i \in { j \in SettingsIds :
                                       ~NoBoardRotation(SettingsVals[j]) } }

\* C8: updateSensors never applies a partly rewritten R: when it finds
\* rotate set, R is the matrix of one settings snapshot.
C8_RotationPair ==
    (pc \in {"fuse", "policy"} /\ used.rotate = 1)
    => used.R \in ConfiguredRotations

\* C9: gyro_correct_int is finite at all times.
C9_BiasFinite == \A i \in 1 .. 3 : IsFinite(gyro_correct_int[i])

\* C10: the dT of every call is strictly positive: 0.001 when the tick
\* count equals that of the previous call, else the difference of the tick
\* counts modulo 2^32 over 1000; the call leaves lastSysTime at the tick
\* count it read.
C10_TimeStep ==
    Called =>
        /\ FGt(obs.dT, Zero)
        /\ (obs.now = obs.last) => obs.dT = MinDT
        /\ (obs.now # obs.last) =>
               obs.dT = FDiv(TickToF(TickSub(obs.now, obs.last)), Flt(1000, 0))
        /\ lastSysTime = obs.now

\* Two calls in the same tick.
C10_Witness ==
    Called /\ nCycles > 1 /\ obs.now = obs.last /\ obs.now = Tick(2)
    /\ obs.dT = MinDT

=============================================================================
